---- MODULE Spec2Model ----
(***************************************************************************)
(* Style-aligned attention / normalization sharing (src/__init__.py).      *)
(*                                                                         *)
(* Tensors are modelled as torch holds them: a shape and the row-major     *)
(* sequence of elements.  Elements are exact real numbers of the form      *)
(*      a + b * PROD_v sigma(v)^e(v),   sigma(v) = sqrt(v + eps)           *)
(* with a, b rationals: the only irrational the program ever produces is   *)
(* the standard deviation sqrt(var + eps) of calc_mean_std.  Floating      *)
(* point rounding is not modelled.                                         *)
(***************************************************************************)
EXTENDS Integers, Sequences, FiniteSets, TLC

(***************************************************************************)
(* Bounds of the model.                                                    *)
(***************************************************************************)
MaxHalfBatch == 2     \* batch sizes are 2 * (1..MaxHalfBatch)
MaxSeq == 2           \* extent of the sequence axis
MaxCells == 8         \* number of elements of an input tensor
MaxNodes == 4         \* modules of a layer tree that is walked
MaxPatchNodes == 3    \* modules of the layer tree of a patched model
MaxPatchers == 3      \* ModelPatchers alive: the input model and its clones
MaxLayers == 2        \* normalization layers wrapped directly
MaxWraps == 2         \* register_norm_forward calls on one layer

(***************************************************************************)
(* Rationals <<n, d>>, d > 0, in lowest terms.                             *)
(***************************************************************************)
Abs(x) == IF x < 0 THEN -x ELSE x

RECURSIVE GCD(_, _)
GCD(x, y) == IF y = 0 THEN x ELSE GCD(y, x % y)

RNorm(n, d) ==
    LET g == GCD(Abs(n), Abs(d))
        s == IF d < 0 THEN -1 ELSE 1
    IN  <<s * (n \div g), s * (d \div g)>>

RInt(k) == <<k, 1>>
RZero == RInt(0)
ROne == RInt(1)

RAdd(x, y) ==
    IF x[2] = 1 /\ y[2] = 1 THEN <<x[1] + y[1], 1>>
    ELSE LET g == GCD(x[2], y[2])
             L == (x[2] \div g) * y[2]
         IN  RNorm(x[1] * (L \div x[2]) + y[1] * (L \div y[2]), L)

RNeg(x) == <<-x[1], x[2]>>
RSub(x, y) == RAdd(x, RNeg(y))

RMul(x, y) ==
    IF x[2] = 1 /\ y[2] = 1 THEN <<x[1] * y[1], 1>>
    ELSE LET g1 == GCD(Abs(x[1]), y[2])
             g2 == GCD(Abs(y[1]), x[2])
         IN  RNorm((x[1] \div g1) * (y[1] \div g2),
                   (x[2] \div g2) * (y[2] \div g1))

RInv(x) == IF x[1] < 0 THEN <<-x[2], -x[1]>> ELSE <<x[2], x[1]>>
RDiv(x, y) == RMul(x, RInv(y))

(***************************************************************************)
(* Numbers.  [a, b, m, nan] is a + b * PROD_{v \in DOMAIN m} sigma(v)^m[v] *)
(* where sigma(v) = sqrt(v + eps) is the standard deviation calc_mean_std  *)
(* takes of the variance v; nan is torch's NaN.  A number with b = 0 has   *)
(* the empty monomial.                                                     *)
(***************************************************************************)
NoMono == <<>>

Mk(a, b, m) ==
    IF b = RZero \/ DOMAIN m = {}
    THEN [a |-> IF DOMAIN m = {} THEN RAdd(a, b) ELSE a,
          b |-> RZero, m |-> NoMono, nan |-> FALSE]
    ELSE [a |-> a, b |-> b, m |-> m, nan |-> FALSE]

NaN == [a |-> RZero, b |-> RZero, m |-> NoMono, nan |-> TRUE]

Num(k) == Mk(RInt(k), RZero, NoMono)
NumR(r) == Mk(r, RZero, NoMono)

MExp(m, k) == IF k \in DOMAIN m THEN m[k] ELSE 0

MMul(m1, m2) ==
    LET K == {k \in DOMAIN m1 \cup DOMAIN m2 : MExp(m1, k) + MExp(m2, k) # 0}
    IN  IF K = {} THEN NoMono ELSE [k \in K |-> MExp(m1, k) + MExp(m2, k)]

MInv(m) == IF DOMAIN m = {} THEN NoMono ELSE [k \in DOMAIN m |-> -m[k]]

SameMono(m1, m2) ==
    /\ DOMAIN m1 = DOMAIN m2
    /\ \A k \in DOMAIN m1 : m1[k] = m2[k]

NumAdd(x, y) ==
    IF x.nan \/ y.nan THEN NaN
    ELSE CASE x.b = RZero -> Mk(RAdd(x.a, y.a), y.b, y.m)
           [] y.b = RZero -> Mk(RAdd(x.a, y.a), x.b, x.m)
           [] SameMono(x.m, y.m) -> Mk(RAdd(x.a, y.a), RAdd(x.b, y.b), x.m)

NumNeg(x) == IF x.nan THEN NaN ELSE Mk(RNeg(x.a), RNeg(x.b), x.m)

NumSub(x, y) == NumAdd(x, NumNeg(y))

NumMul(x, y) ==
    IF x.nan \/ y.nan THEN NaN
    ELSE CASE x.b = RZero -> Mk(RMul(x.a, y.a), RMul(x.a, y.b), y.m)
           [] y.b = RZero -> Mk(RMul(x.a, y.a), RMul(x.b, y.a), x.m)
           [] x.a = RZero /\ y.a = RZero ->
                Mk(RZero, RMul(x.b, y.b), MMul(x.m, y.m))

\* 1 / y; 1 / 0 is torch's inf, which no step of the program divides by.
NumInv(y) ==
    IF y.nan THEN NaN
    ELSE CASE y.b = RZero /\ y.a # RZero -> Mk(RInv(y.a), RZero, NoMono)
           [] y.b # RZero /\ y.a = RZero -> Mk(RZero, RInv(y.b), MInv(y.m))

NumDiv(x, y) == NumMul(x, NumInv(y))

\* x / k for the integer count k of a reduction; 0 / 0 is NaN.
NumDivInt(x, k) ==
    IF x.nan \/ k = 0 THEN NaN ELSE NumMul(x, Mk(<<1, k>>, RZero, NoMono))

\* (v + eps).sqrt() for a rational v >= 0: the atom sigma(v).
SqrtPlusEps(x) ==
    IF x.nan THEN NaN
    ELSE CASE x.b = RZero -> Mk(RZero, ROne, (x.a :> 1))

(***************************************************************************)
(* Tensors: [shape, flat], flat the elements in row-major order.  A        *)
(* multi-index is a sequence of 0-based positions, one per axis.  (The     *)
(* trailing \o <<>> only makes TLC build the sequence once.)               *)
(***************************************************************************)
RECURSIVE Numel(_)
Numel(shape) == IF shape = <<>> THEN 1 ELSE Head(shape) * Numel(Tail(shape))

RECURSIVE Offset(_, _)
Offset(idx, shape) ==
    IF shape = <<>> THEN 0
    ELSE Head(idx) * Numel(Tail(shape)) + Offset(Tail(idx), Tail(shape))

RECURSIVE Unravel(_, _)
Unravel(k, shape) ==
    IF shape = <<>> THEN <<>>
    ELSE LET st == Numel(Tail(shape))
         IN  <<k \div st>> \o Unravel(k % st, Tail(shape))

Rank(t) == Len(t.shape)
At(t, idx) == t.flat[Offset(idx, t.shape) + 1]

\* The one element of a singleton.  Only({e(x) : x \in {a}}) is e(a) with a
\* evaluated once.
Only(S) == CHOOSE x \in S : TRUE

MkTensor(shape, F(_)) ==
    [shape |-> shape,
     flat |-> [k \in 1..Numel(shape) |-> F(Unravel(k - 1, shape))] \o <<>>]

\* A possibly negative axis number, as torch resolves it (0-based result).
Axis(t, dim) == IF dim < 0 THEN Rank(t) + dim ELSE dim

\* t[i]
Select0(t_, i) ==
    Only({LET F(idx) == At(t, <<i>> \o idx) IN MkTensor(Tail(t.shape), F)
          : t \in {t_}})

\* torch.stack((x, y))
Stack2(x_, y_) ==
    Only({LET F(idx) == IF Head(idx) = 0 THEN At(x, Tail(idx))
                        ELSE At(y, Tail(idx))
          IN  MkTensor(<<2>> \o x.shape, F)
          : x \in {x_}, y \in {y_}})

\* t.unsqueeze(1)
Unsqueeze1(t_) ==
    Only({[shape |-> <<Head(t.shape), 1>> \o Tail(t.shape), flat |-> t.flat]
          : t \in {t_}})

\* t.expand(*shape), shape of the rank of t: an axis of extent 1 is broadcast.
Expand(t_, shape) ==
    Only({LET F(idx) == At(t, [p \in 1..Len(shape) |->
                                  IF t.shape[p] = 1 THEN 0 ELSE idx[p]])
          IN  MkTensor(shape, F)
          : t \in {t_}})

\* t.repeat(*reps): a shorter shape is padded with leading axes of extent 1.
Repeat(t_, reps) ==
    Only({LET pad == Len(reps) - Rank(t)
              old == [p \in 1..Len(reps) |->
                         IF p <= pad THEN 1 ELSE t.shape[p - pad]]
              tp == [shape |-> old, flat |-> t.flat]
              F(idx) == At(tp, [p \in 1..Len(reps) |-> idx[p] % old[p]])
          IN  MkTensor([p \in 1..Len(reps) |-> old[p] * reps[p]], F)
          : t \in {t_}})

\* t[lo:hi] along axis ax (0-based).
Narrow(t_, ax, lo, hi) ==
    Only({LET F(idx) == At(t, [idx EXCEPT ![ax + 1] = @ + lo])
          IN  MkTensor([t.shape EXCEPT ![ax + 1] = hi - lo], F)
          : t \in {t_}})

\* torch.cat((x, y), dim=ax)
Cat(x_, y_, ax) ==
    Only({LET n == x.shape[ax + 1]
              F(idx) == IF idx[ax + 1] < n THEN At(x, idx)
                        ELSE At(y, [idx EXCEPT ![ax + 1] = @ - n])
          IN  MkTensor([x.shape EXCEPT ![ax + 1] = @ + y.shape[ax + 1]], F)
          : x \in {x_}, y \in {y_}})

Map(Op(_), t_) ==
    Only({[shape |-> t.shape,
           flat |-> [k \in DOMAIN t.flat |-> Op(t.flat[k])] \o <<>>]
          : t \in {t_}})

\* scale * t
ScalarMul(s, t) == LET Op(x) == NumMul(s, x) IN Map(Op, t)

\* t.reshape(*shape): the same elements in the same order.
Reshape(t_, shape) ==
    Only({CASE Numel(shape) = Numel(t.shape) -> [shape |-> shape, flat |-> t.flat]
          : t \in {t_}})

\* x (op) y elementwise, y broadcast along its axes of extent 1.
Broadcast2(Op(_, _), x_, y_) ==
    Only({LET F(idx) == Op(At(x, idx),
                           At(y, [p \in 1..Rank(x) |->
                                     IF y.shape[p] = 1 THEN 0 ELSE idx[p]]))
          IN  MkTensor(x.shape, F)
          : x \in {x_}, y \in {y_}})

RECURSIVE SumTo(_, _)
SumTo(F(_), n) == IF n = 0 THEN Num(0) ELSE NumAdd(SumTo(F, n - 1), F(n - 1))

\* t.mean(dim=-2, keepdims=True)
MeanSeq(t_) ==
    Only({LET ax == Rank(t) - 2
              n == t.shape[ax + 1]
              F(idx) == LET G(j) == At(t, [idx EXCEPT ![ax + 1] = j])
                        IN  NumDivInt(SumTo(G, n), n)
          IN  MkTensor([t.shape EXCEPT ![ax + 1] = 1], F)
          : t \in {t_}})

\* t.var(dim=-2, keepdims=True): the unbiased estimate (divisor n - 1).
VarSeq(t_) ==
    Only({LET ax == Rank(t) - 2
              n == t.shape[ax + 1]
              F(idx) ==
                  Only({LET G(j) ==
                                Only({NumMul(dv, dv)
                                      : dv \in {NumSub(At(t, [idx EXCEPT
                                                              ![ax + 1] = j]),
                                                       mu)}})
                        IN  NumDivInt(SumTo(G, n), n - 1)
                        : mu \in {At(mean, idx)}})
          IN  MkTensor([t.shape EXCEPT ![ax + 1] = 1], F)
          : t \in {t_}, mean \in {MeanSeq(t_)}})

(***************************************************************************)
(* expand_first, concat_first, calc_mean_std, adain.                       *)
(***************************************************************************)
IsOne(scale) == scale = Num(1)

\* Mutant: both halves of the batch take entry 0 as their style.
expand_first_style_zero_only(feat_, scale) ==
    Only({LET b == feat.shape[1]
          IN  Only({IF IsOne(scale)
                    THEN Reshape(Expand(feat_style,
                                        <<2, b \div 2>> \o Tail(feat.shape)),
                                 feat.shape)
                    ELSE Only({Reshape(
                                   Cat(Narrow(rep, 1, 0, 1),
                                       ScalarMul(scale,
                                                 Narrow(rep, 1, 1, rep.shape[2])),
                                       1),
                                   feat.shape)
                               : rep \in {Repeat(feat_style,
                                                 <<1, b \div 2, 1, 1, 1>>)}})
                    : feat_style \in {Unsqueeze1(Stack2(Select0(feat, 0),
                                                        Select0(feat, 0)))}})
          : feat \in {feat_}})

\* Mutant: with a scale other than 1 every copy is scaled, the first of each
\* style too.
expand_first_scales_every_copy(feat_, scale) ==
    Only({LET b == feat.shape[1]
          IN  Only({IF IsOne(scale)
                    THEN Reshape(Expand(feat_style,
                                        <<2, b \div 2>> \o Tail(feat.shape)),
                                 feat.shape)
                    ELSE Reshape(ScalarMul(scale,
                                           Repeat(feat_style,
                                                  <<1, b \div 2, 1, 1, 1>>)),
                                 feat.shape)
                    : feat_style \in {Unsqueeze1(Stack2(Select0(feat, 0),
                                                        Select0(feat, b \div 2)))}})
          : feat \in {feat_}})

expand_first(feat_, scale) ==
    Only({LET b == feat.shape[1]
          IN  Only({IF IsOne(scale)
                    THEN Reshape(Expand(feat_style,
                                        <<2, b \div 2>> \o Tail(feat.shape)),
                                 feat.shape)
                    ELSE Only({Reshape(
                                   Cat(Narrow(rep, 1, 0, 1),
                                       ScalarMul(scale,
                                                 Narrow(rep, 1, 1, rep.shape[2])),
                                       1),
                                   feat.shape)
                               : rep \in {Repeat(feat_style,
                                                 <<1, b \div 2, 1, 1, 1>>)}})
                    : feat_style \in {Unsqueeze1(Stack2(Select0(feat, 0),
                                                        Select0(feat, b \div 2)))}})
          : feat \in {feat_}})

\* Mutant: the style copy is put before the tensor, not after it.
concat_first_style_in_front(feat_, dim, scale) ==
    Only({Cat(expand_first(feat, scale), feat, Axis(feat, dim))
          : feat \in {feat_}})

concat_first(feat_, dim, scale) ==
    Only({Cat(feat, expand_first(feat, scale), Axis(feat, dim))
          : feat \in {feat_}})

\* Mutant: the deviation is taken of the biased variance (divisor n).
calc_mean_std_biased(feat) ==
    [mean |-> MeanSeq(feat),
     std |-> Map(SqrtPlusEps,
                 MeanSeq(Only({Broadcast2(NumMul, dv, dv)
                               : dv \in {Broadcast2(NumSub, feat,
                                                    MeanSeq(feat))}})))]

calc_mean_std(feat) ==
    [mean |-> MeanSeq(feat), std |-> Map(SqrtPlusEps, VarSeq(feat))]

adain(feat_) ==
    Only({LET feat_style_mean == expand_first(ms.mean, Num(1))
              feat_style_std == expand_first(ms.std, Num(1))
              normed == Broadcast2(NumDiv, Broadcast2(NumSub, feat, ms.mean),
                                   ms.std)
          IN  Broadcast2(NumAdd, Broadcast2(NumMul, normed, feat_style_std),
                         feat_style_mean)
          : feat \in {feat_}, ms \in {calc_mean_std(feat_)}})

(***************************************************************************)
(* sdpa.  A mask is absent (None) or a tensor; `if mask:` takes its truth  *)
(* value: a tensor of one element is true iff the element is nonzero, and  *)
(* torch refuses the truth value of a tensor of any other size.            *)
(***************************************************************************)
\* None; an empty mask; a one-element tensor holding 0; one holding a
\* nonzero value; a tensor of several elements.
Masks == {"None", "empty", "zero", "one", "many"}

\* bool(mask): the outcomes "True", "False", "RuntimeError".  An empty
\* sequence is false; an empty tensor is false or refused, by torch version.
Truth(mask) ==
    CASE mask = "None" -> {"False"}
      [] mask = "empty" -> {"RuntimeError", "False"}
      [] mask = "zero" -> {"False"}
      [] mask = "one" -> {"True"}
      [] mask = "many" -> {"RuntimeError"}

sdpa(q, k, v, mask, heads) ==
    {CASE tv = "True" -> [kernel |-> "optimized_attention_masked",
                          q |-> q, k |-> k, v |-> v, heads |-> heads,
                          mask |-> mask]
       [] tv = "False" -> [kernel |-> "optimized_attention",
                           q |-> q, k |-> k, v |-> v, heads |-> heads,
                           mask |-> "None"]
       [] tv = "RuntimeError" -> [kernel |-> "RuntimeError",
                                  q |-> q, k |-> k, v |-> v, heads |-> heads,
                                  mask |-> mask]
     : tv \in Truth(mask)}

(***************************************************************************)
(* SharedAttentionProcessor.__call__                                       *)
(***************************************************************************)
ArgsSet ==
    [share_attention : BOOLEAN, adain_queries : BOOLEAN,
     adain_keys : BOOLEAN, adain_values : BOOLEAN]

\* Mutant: the appended values are scaled like the appended keys.
SharedAttentionProcessor_call_scaled_values(args, scale, q, k, v) ==
    LET q1 == IF args.adain_queries THEN adain(q) ELSE q
        k1 == IF args.adain_keys THEN adain(k) ELSE k
        v1 == IF args.adain_values THEN adain(v) ELSE v
    IN  IF args.share_attention
        THEN [q |-> q1, k |-> concat_first(k1, -2, scale),
              v |-> concat_first(v1, -2, scale)]
        ELSE [q |-> q1, k |-> k1, v |-> v1]

SharedAttentionProcessor_call(args, scale, q, k, v) ==
    LET q1 == IF args.adain_queries THEN adain(q) ELSE q
        k1 == IF args.adain_keys THEN adain(k) ELSE k
        v1 == IF args.adain_values THEN adain(v) ELSE v
    IN  IF args.share_attention
        THEN [q |-> q1, k |-> concat_first(k1, -2, scale),
              v |-> concat_first(v1, -2, Num(1))]
        ELSE [q |-> q1, k |-> k1, v |-> v1]

(***************************************************************************)
(* The tensor functions as a state machine: a call of one function on an   *)
(* input tensor, and the value it returns.                                 *)
(***************************************************************************)
VARIABLES
    feat,       \* the input tensor of the call
    call,       \* the call made: the function and its other arguments
    out,        \* what the call returned
    kinds,      \* the layer tree: the class of each module, root first
    parent,     \* the layer tree: each module's parent module (0: the root)
    models,     \* per model object (an nn.Module tree): its layers' attributes
    patchers    \* per ModelPatcher: the model object it holds, its attn1 patches

vars == <<feat, call, out, kinds, parent, models, patchers>>
tree == <<kinds, parent, models, patchers>>

Vals == {Num(0), Num(1)}
Scales == {Num(0), NumR(<<1, 2>>), Num(1)}
CallScales == {NumR(<<1, 2>>), Num(1)}
HeadCounts == {1, 8}

Batches == {2 * h : h \in 1..MaxHalfBatch}

\* (batch, sequence, feature) and (batch, heads, sequence, feature), with one
\* head and one feature.
Shapes ==
    {s \in {<<b, n, 1>> : b \in Batches, n \in 1..MaxSeq}
           \cup {<<b, 1, n, 1>> : b \in Batches, n \in 1..MaxSeq}
       : Numel(s) <= MaxCells}

Tensors ==
    UNION {{[shape |-> s, flat |-> f] : f \in [1..Numel(s) -> Vals]} : s \in Shapes}

\* The query, key and value of a self-attention call: three projections
\* (to_q, to_k, to_v) of the same hidden states.
ToQ(x) == ScalarMul(Num(2), x)
ToK(x) == x
ToV(x) == ScalarMul(Num(3), x)

NoCall == [op |-> "none"]
NoOut == [op |-> "none"]

Init ==
    /\ feat \in Tensors
    /\ call = NoCall
    /\ out = NoOut
    /\ kinds = <<>> /\ parent = <<>> /\ models = <<>> /\ patchers = <<>>

ExpandFirst ==
    /\ call = NoCall
    /\ \E scale \in Scales :
         /\ call' = [op |-> "expand_first", scale |-> scale]
         /\ out' = [op |-> "expand_first", t |-> expand_first(feat, scale)]
    /\ UNCHANGED <<feat, tree>>

ConcatFirst ==
    /\ call = NoCall
    /\ \E scale \in Scales, dim \in 0..(Rank(feat) - 1) \cup {-2} :
         /\ call' = [op |-> "concat_first", scale |-> scale, dim |-> dim]
         /\ out' = [op |-> "concat_first", t |-> concat_first(feat, dim, scale)]
    /\ UNCHANGED <<feat, tree>>

Adain ==
    /\ call = NoCall
    /\ call' = [op |-> "adain"]
    /\ out' = [op |-> "adain", t |-> adain(feat)]
    /\ UNCHANGED <<feat, tree>>

Call ==
    /\ call = NoCall
    /\ \E args \in ArgsSet, scale \in CallScales :
         /\ call' = [op |-> "call", args |-> args, scale |-> scale]
         /\ out' = [op |-> "call",
                    qkv |-> SharedAttentionProcessor_call(
                                args, scale, ToQ(feat), ToK(feat), ToV(feat))]
    /\ UNCHANGED <<feat, tree>>

Sdpa ==
    /\ call = NoCall
    /\ \E mask \in Masks, heads \in HeadCounts :
         /\ call' = [op |-> "sdpa", mask |-> mask, heads |-> heads]
         /\ \E r \in sdpa(ToQ(feat), ToK(feat), ToV(feat), mask, heads) :
              out' = [op |-> "sdpa", kernel |-> r.kernel, mask |-> r.mask,
                      heads |-> r.heads]
    /\ UNCHANGED <<feat, tree>>

Next == ExpandFirst \/ ConcatFirst \/ Adain \/ Sdpa

Spec == Init /\ [][Next]_vars

\* The attention processor alone.
SpecAttn == Init /\ [][Call]_vars

(***************************************************************************)
(* The layer tree and the normalization layers.                            *)
(*                                                                         *)
(* A forward is a number: 0 is the layer class's own forward, and d + 1 is *)
(* a forward_ closure of register_norm_forward whose captured orig_forward *)
(* is the forward d.  The attribute orig_forward of a layer is absent      *)
(* (has = FALSE) or holds a forward.                                       *)
(***************************************************************************)
Kinds == {"GroupNorm", "LayerNorm", "Module"}
NormKinds == {"GroupNorm", "LayerNorm"}

TreesOf(n) ==
    {[kinds |-> k, parent |-> p] :
        k \in [1..n -> Kinds],
        p \in {q \in [1..n -> 0..(n - 1)] :
                  q[1] = 0 /\ \A i \in 2..n : q[i] \in 1..(i - 1)}}

Trees(maxn) == UNION {TreesOf(n) : n \in 1..maxn}

Nodes == DOMAIN kinds

\* layer.children(), in registration order
children(layer) ==
    LET F(i) == parent[i] = layer
    IN  SelectSeq([i \in 1..Len(kinds) |-> i], F)

Fresh ==
    [forward |-> [l \in Nodes |-> 0],
     orig_forward |-> [l \in Nodes |-> [has |-> FALSE, fwd |-> 0]],
     wraps |-> [l \in Nodes |-> 0]]

\* Mutant: the walk goes on below a recorded group-norm layer.
RECURSIVE get_norm_layers_below_group(_, _, _, _)
get_norm_layers_below_group(layer, norm_layers_, share_layer_norm, share_group_norm) ==
    LET RECURSIVE Each(_, _)
        Each(cs, nl) ==
            IF cs = <<>> THEN nl
            ELSE Each(Tail(cs),
                      get_norm_layers_below_group(Head(cs), nl, share_layer_norm,
                                                  share_group_norm))
        nl1 == IF kinds[layer] = "LayerNorm" /\ share_layer_norm
               THEN [norm_layers_ EXCEPT !.layer = Append(@, layer)]
               ELSE norm_layers_
        nl2 == IF kinds[layer] = "GroupNorm" /\ share_group_norm
               THEN [nl1 EXCEPT !.group = Append(@, layer)]
               ELSE nl1
    IN  Each(children(layer), nl2)

\* get_norm_layers appends to the registry it is given; the value is the
\* registry after the call.
RECURSIVE get_norm_layers(_, _, _, _)
get_norm_layers(layer, norm_layers_, share_layer_norm, share_group_norm) ==
    LET RECURSIVE Each(_, _)
        Each(cs, nl) ==
            IF cs = <<>> THEN nl
            ELSE Each(Tail(cs),
                      get_norm_layers(Head(cs), nl, share_layer_norm,
                                      share_group_norm))
        nl1 == IF kinds[layer] = "LayerNorm" /\ share_layer_norm
               THEN [norm_layers_ EXCEPT !.layer = Append(@, layer)]
               ELSE norm_layers_
    IN  IF kinds[layer] = "GroupNorm" /\ share_group_norm
        THEN [nl1 EXCEPT !.group = Append(@, layer)]
        ELSE Each(children(layer), nl1)

\* Mutant: no hasattr guard, orig_forward is set to the current forward on
\* every call.
register_norm_forward_unguarded(st, norm_layer) ==
    LET st1 == [st EXCEPT !.orig_forward[norm_layer] =
                              [has |-> TRUE, fwd |-> st.forward[norm_layer]]]
        orig_forward == st1.orig_forward[norm_layer].fwd
    IN  [st1 EXCEPT !.forward[norm_layer] = orig_forward + 1,
                    !.wraps[norm_layer] = @ + 1]

\* The layers' attributes after register_norm_forward(norm_layer).
register_norm_forward(st, norm_layer) ==
    LET st1 == IF ~st.orig_forward[norm_layer].has
               THEN [st EXCEPT !.orig_forward[norm_layer] =
                                   [has |-> TRUE, fwd |-> st.forward[norm_layer]]]
               ELSE st
        orig_forward == st1.orig_forward[norm_layer].fwd
    IN  [st1 EXCEPT !.forward[norm_layer] = orig_forward + 1,
                    !.wraps[norm_layer] = @ + 1]

RECURSIVE RegisterEach(_, _)
RegisterEach(st, layers) ==
    IF layers = <<>> THEN st
    ELSE RegisterEach(register_norm_forward(st, Head(layers)), Tail(layers))

EmptyRegistry == [group |-> <<>>, layer |-> <<>>]

\* Mutant: the two flags reach the walk in each other's place.
register_shared_norm_flags_swapped(st, share_group_norm, share_layer_norm) ==
    LET norm_layers == get_norm_layers(1, EmptyRegistry, share_group_norm,
                                       share_layer_norm)
    IN  RegisterEach(RegisterEach(st, norm_layers.group), norm_layers.layer)

\* register_shared_norm(model, ...) on the layers of model.model (module 1).
register_shared_norm(st, share_group_norm, share_layer_norm) ==
    LET norm_layers == get_norm_layers(1, EmptyRegistry, share_layer_norm,
                                       share_group_norm)
    IN  RegisterEach(RegisterEach(st, norm_layers.group), norm_layers.layer)

ShareNorms == {"disabled", "group", "layer", "both"}

\* The processor patch() builds: SharedAttentionProcessor(self.args, scale,
\* style_image) with the default StyleAlignedArgs.
DefaultArgs ==
    [share_attention |-> TRUE, adain_queries |-> TRUE, adain_keys |-> TRUE,
     adain_values |-> FALSE]

Processor(scale) == [args |-> DefaultArgs, scale |-> scale]

\* Mutant: the layers are wrapped on a private copy of the model, held by
\* the clone.
patch_private_copy(ms, ps, model, share_norm, scale) ==
    LET share_group_norm == share_norm \in {"group", "both"}
        share_layer_norm == share_norm \in {"layer", "both"}
        copy == register_shared_norm(ms[ps[model].model], share_group_norm,
                                     share_layer_norm)
        m == [model |-> Len(ms) + 1,
              attn1 |-> Append(ps[model].attn1, Processor(scale))]
    IN  [models |-> Append(ms, copy), patchers |-> Append(ps, m)]

\* StyleAlignedPatch.patch on the ModelPatcher `model`: the model objects
\* and the ModelPatchers after it; the clone returned is the last patcher.
\* A clone holds the model object of the patcher it is cloned from, and a
\* copy of its patches.
patch(ms, ps, model, share_norm, scale) ==
    LET m0 == [model |-> ps[model].model, attn1 |-> ps[model].attn1]
        share_group_norm == share_norm \in {"group", "both"}
        share_layer_norm == share_norm \in {"layer", "both"}
        obj == ps[model].model
        ms1 == [ms EXCEPT ![obj] = register_shared_norm(@, share_group_norm,
                                                        share_layer_norm)]
        m == [m0 EXCEPT !.attn1 = Append(@, Processor(scale))]
    IN  [models |-> ms1, patchers |-> Append(ps, m)]

\* What the layer class's own forward returns: a tensor of the shape of its
\* input, of values the model does not compute.
NormForward(x_) ==
    Only({[shape |-> x.shape, flat |-> [k \in DOMAIN x.flat |-> <<"normed", k>>]]
          : x \in {x_}})

\* forward(hidden_states) for a forward (see above): what it returns, and
\* the inputs the layer class's own forward was called on.
RECURSIVE CallForward(_, _)
CallForward(fwd, hidden_states) ==
    IF fwd = 0
    THEN [ret |-> NormForward(hidden_states), calls |-> <<hidden_states>>]
    ELSE Only({[ret |-> Narrow(r.ret, Rank(r.ret) - 2, 0,
                               hidden_states.shape[Rank(hidden_states) - 1]),
                calls |-> r.calls]
               : r \in {CallForward(fwd - 1,
                                    concat_first(hidden_states, -2, Num(1)))}})

\* One tensor of each shape, its elements all different.
Iota(shape) == LET F(idx) == Num(Offset(idx, shape) + 1) IN MkTensor(shape, F)

NoTensor == [shape |-> <<0>>, flat |-> <<>>]

(***************************************************************************)
(* The walk of a layer tree.                                               *)
(***************************************************************************)
InitWalk ==
    /\ \E t \in Trees(MaxNodes) : kinds = t.kinds /\ parent = t.parent
    /\ feat = NoTensor /\ call = NoCall /\ out = NoOut
    /\ models = <<>> /\ patchers = <<>>

GetNormLayers ==
    /\ call = NoCall
    /\ \E layer \in Nodes, share_layer_norm \in BOOLEAN,
          share_group_norm \in BOOLEAN :
         /\ call' = [op |-> "get_norm_layers", layer |-> layer,
                     share_layer_norm |-> share_layer_norm,
                     share_group_norm |-> share_group_norm]
         /\ out' = [op |-> "get_norm_layers",
                    norm_layers |-> get_norm_layers(layer, EmptyRegistry,
                                                    share_layer_norm,
                                                    share_group_norm)]
    /\ UNCHANGED <<feat, tree>>

SpecWalk == InitWalk /\ [][GetNormLayers]_vars

(***************************************************************************)
(* Patching a model, and the clones of it.                                 *)
(***************************************************************************)
InitPatch ==
    /\ \E t \in Trees(MaxPatchNodes) : kinds = t.kinds /\ parent = t.parent
    /\ feat = NoTensor /\ call = NoCall /\ out = NoOut
    /\ models = <<Fresh>>
    /\ patchers = <<[model |-> 1, attn1 |-> <<>>]>>

Patch ==
    /\ Len(patchers) < MaxPatchers
    /\ \E model \in DOMAIN patchers, share_norm \in ShareNorms,
          scale \in CallScales :
         /\ call' = [op |-> "patch", model |-> model, share_norm |-> share_norm,
                     scale |-> scale]
         /\ \E r \in {patch(models, patchers, model, share_norm, scale)} :
              /\ models' = r.models
              /\ patchers' = r.patchers
              /\ out' = [op |-> "patch", m |-> Len(r.patchers)]
    /\ UNCHANGED <<feat, kinds, parent>>

SpecPatch == InitPatch /\ [][Patch]_vars

(***************************************************************************)
(* Wrapping normalization layers directly, and calling their forward.      *)
(***************************************************************************)
InitWrap ==
    /\ kinds \in [1..MaxLayers -> NormKinds]
    /\ parent = [l \in 1..MaxLayers |-> 0]
    /\ feat = NoTensor /\ call = NoCall /\ out = NoOut
    /\ models = <<Fresh>>
    /\ patchers = <<>>

RegisterNormForward ==
    /\ \E norm_layer \in Nodes :
         /\ models[1].wraps[norm_layer] < MaxWraps
         /\ models' = [models EXCEPT ![1] = register_norm_forward(@, norm_layer)]
         /\ call' = [op |-> "register_norm_forward", layer |-> norm_layer]
         /\ out' = [op |-> "register_norm_forward", layer |-> norm_layer]
    /\ feat' = NoTensor
    /\ UNCHANGED <<kinds, parent, patchers>>

\* (A forward call changes nothing of the layers; a second one in a row is
\* not modelled.)
Forward ==
    /\ call.op # "forward"
    /\ \E norm_layer \in Nodes, shape \in Shapes :
         /\ feat' = Iota(shape)
         /\ call' = [op |-> "forward", layer |-> norm_layer]
         /\ \E r \in {CallForward(models[1].forward[norm_layer], Iota(shape))} :
              out' = [op |-> "forward", ret |-> r.ret, calls |-> r.calls]
    /\ UNCHANGED tree

NextWrap == RegisterNormForward \/ Forward

SpecWrap == InitWrap /\ [][NextWrap]_vars

(***************************************************************************)
(* Vocabulary of the properties.                                           *)
(***************************************************************************)
Indices(shape) == {Unravel(k, shape) : k \in 0..(Numel(shape) - 1)}

\* The batch entry whose style entry i takes: entry 0 in the first half of
\* the batch, entry b // 2 in the second.
StyleOf(i, b) == IF i < b \div 2 THEN 0 ELSE b \div 2

AtStyle(t, idx) == At(t, [idx EXCEPT ![1] = StyleOf(idx[1], t.shape[1])])

SeqAxis(t) == Rank(t) - 1        \* position in the shape of the axis -2
SeqLen(t) == t.shape[SeqAxis(t)]
Shift(idx, pos, n) == [idx EXCEPT ![pos] = @ + n]
Doubled(shape, pos) == [shape EXCEPT ![pos] = 2 * @]

Eps == <<1, 100000>>

RECURSIVE RPow(_, _)
RPow(r, e) ==
    IF e = 0 THEN ROne
    ELSE IF e < 0 THEN RPow(RInv(r), -e)
    ELSE RMul(r, RPow(r, e - 1))

RECURSIVE MonoValue(_, _)
MonoValue(m, K) ==
    IF K = {} THEN ROne
    ELSE LET k == CHOOSE x \in K : TRUE
         IN  RMul(RPow(RAdd(k, Eps), m[k] \div 2), MonoValue(m, K \ {k}))

\* The rational value of a number whose monomial has even exponents only.
IsRationalValued(x) == ~x.nan /\ \A k \in DOMAIN x.m : x.m[k] % 2 = 0
Value(x) == RAdd(x.a, RMul(x.b, MonoValue(x.m, DOMAIN x.m)))

RLe(x, y) == x[1] * y[2] <= y[1] * x[2]
RAbs(x) == <<Abs(x[1]), x[2]>>

\* Equal within the tolerance 1/100: far wider than any rounding error.
Tol == <<1, 100>>
Close(x, y) == RLe(RAbs(RSub(x, y)), Tol)

(***************************************************************************)
(* C1: expand_first(t, 1.0) has the shape of t, every batch entry of its   *)
(* first half is t[0] and every batch entry of its second half is          *)
(* t[b // 2].                                                              *)
(***************************************************************************)
C1_ExpandFirstUnitScale ==
    (call.op = "expand_first" /\ IsOne(call.scale)) =>
        /\ out.t.shape = feat.shape
        /\ \A idx \in Indices(feat.shape) : At(out.t, idx) = AtStyle(feat, idx)

C1_Witness ==
    /\ call.op = "expand_first" /\ IsOne(call.scale)
    /\ feat.shape[1] = 4
    /\ Select0(feat, 1) # Select0(feat, 0)
    /\ Select0(feat, 3) # Select0(feat, 2)
    /\ Select0(feat, 2) # Select0(feat, 0)

(***************************************************************************)
(* C2, as claimed: for a 4-axis t and a scale s # 1, expand_first(t, s)    *)
(* leaves only batch slot 0 unscaled: slots 1 .. b/2-1 are s * t[0] and    *)
(* all the slots b/2 .. b-1 are s * t[b // 2].                             *)
(***************************************************************************)
C2_OnlySlotZeroUnscaled ==
    (call.op = "expand_first" /\ ~IsOne(call.scale) /\ Rank(feat) = 4) =>
        /\ out.t.shape = feat.shape
        /\ \A idx \in Indices(feat.shape) :
             At(out.t, idx) = IF idx[1] = 0 THEN AtStyle(feat, idx)
                              ELSE NumMul(call.scale, AtStyle(feat, idx))

(***************************************************************************)
(* C2, amended: for a 4-axis t and a scale s # 1, expand_first(t, s)       *)
(* leaves the first copy of each of the two style entries unscaled: slot 0 *)
(* is t[0] and slot b/2 is t[b // 2]; slots 1 .. b/2-1 are s * t[0] and    *)
(* slots b/2+1 .. b-1 are s * t[b // 2].                                   *)
(***************************************************************************)
C2_FirstCopyOfEachStyleUnscaled ==
    (call.op = "expand_first" /\ ~IsOne(call.scale) /\ Rank(feat) = 4) =>
        /\ out.t.shape = feat.shape
        /\ \A idx \in Indices(feat.shape) :
             At(out.t, idx) =
                 IF idx[1] = StyleOf(idx[1], feat.shape[1])
                 THEN AtStyle(feat, idx)
                 ELSE NumMul(call.scale, AtStyle(feat, idx))

C2_Witness ==
    /\ call.op = "expand_first" /\ call.scale = NumR(<<1, 2>>)
    /\ Rank(feat) = 4 /\ feat.shape[1] = 4
    /\ \A i \in {0, 2} : \E idx \in Indices(feat.shape) :
         idx[1] = i /\ At(feat, idx) # Num(0)
    /\ Select0(out.t, 2) = Select0(feat, 2)
    /\ Select0(out.t, 3) # Select0(feat, 2)

(***************************************************************************)
(* C3: concat_first(t, axis, 1.0) doubles the extent of t along the axis   *)
(* and keeps the other extents; its first half along the axis is t and its *)
(* second half is expand_first(t, 1.0): entry i of t replaced by its style *)
(* entry.                                                                  *)
(***************************************************************************)
C3_ConcatFirstUnitScale ==
    (call.op = "concat_first" /\ IsOne(call.scale)) =>
        LET pos == Axis(feat, call.dim) + 1
        IN  /\ out.t.shape = Doubled(feat.shape, pos)
            /\ \A idx \in Indices(feat.shape) :
                 /\ At(out.t, idx) = At(feat, idx)
                 /\ At(out.t, Shift(idx, pos, feat.shape[pos]))
                        = AtStyle(feat, idx)

C3_Witness ==
    /\ call.op = "concat_first" /\ IsOne(call.scale) /\ call.dim = 1
    /\ feat.shape = <<4, 2, 1>>
    /\ Select0(feat, 1) # Select0(feat, 0)
    /\ Select0(feat, 3) # Select0(feat, 2)
    /\ Select0(feat, 2) # Select0(feat, 0)

(***************************************************************************)
(* C4: the processor restyles first (adain of q, k, v as the three flags   *)
(* say) and then, with share_attention, returns the restyled key followed  *)
(* along the sequence axis by expand_first(restyled key, scale) and the    *)
(* restyled value followed by expand_first(restyled value, 1.0): the       *)
(* sequence extent of key and value doubles and that of the query does     *)
(* not.  Without share_attention key and value keep their extent.          *)
(***************************************************************************)
Restyled(flag, t) == IF flag THEN adain(t) ELSE t

\* r is t followed along the sequence axis by second.
FollowedBy(r, t, second) ==
    /\ r.shape = Doubled(t.shape, SeqAxis(t))
    /\ \A idx \in Indices(t.shape) :
         /\ At(r, idx) = At(t, idx)
         /\ At(r, Shift(idx, SeqAxis(t), SeqLen(t))) = At(second, idx)

C4_ProcessorSharesKeysAndValues ==
    (call.op = "call") =>
        \A rq \in {Restyled(call.args.adain_queries, ToQ(feat))},
           rk \in {Restyled(call.args.adain_keys, ToK(feat))},
           rv \in {Restyled(call.args.adain_values, ToV(feat))} :
            /\ out.qkv.q = rq
            /\ SeqLen(out.qkv.q) = SeqLen(feat)
            /\ IF call.args.share_attention
               THEN /\ FollowedBy(out.qkv.k, rk, expand_first(rk, call.scale))
                    /\ FollowedBy(out.qkv.v, rv, expand_first(rv, Num(1)))
                    /\ SeqLen(out.qkv.k) = 2 * SeqLen(feat)
                    /\ SeqLen(out.qkv.v) = 2 * SeqLen(feat)
               ELSE /\ out.qkv.k = rk
                    /\ out.qkv.v = rv
                    /\ SeqLen(out.qkv.k) = SeqLen(feat)
                    /\ SeqLen(out.qkv.v) = SeqLen(feat)

C4_Witness ==
    /\ call.op = "call"
    /\ call.args.share_attention /\ call.args.adain_keys
    /\ call.args.adain_queries /\ ~call.args.adain_values
    /\ call.scale = NumR(<<1, 2>>)
    /\ feat.shape[1] = 4 /\ SeqLen(feat) = 2
    /\ SeqLen(out.qkv.k) = 4 /\ SeqLen(out.qkv.q) = 2
    /\ out.qkv.k # Cat(ToK(feat), ToK(feat), SeqAxis(feat) - 1)
    /\ \E idx \in Indices(feat.shape) :
         /\ idx[1] = 1
         /\ At(out.qkv.v, Shift(idx, SeqAxis(feat), 2)) = AtStyle(ToV(feat), idx)
         /\ At(out.qkv.v, Shift(idx, SeqAxis(feat), 2)) # Num(0)

(***************************************************************************)
(* C7, as claimed: sdpa routes to the unmasked kernel exactly when the     *)
(* mask is absent; every present mask, a falsy one included, is routed to  *)
(* the masked kernel.                                                      *)
(***************************************************************************)
C7_UnmaskedIffMaskAbsent ==
    (call.op = "sdpa") =>
        /\ (call.mask = "None") <=> (out.kernel = "optimized_attention")
        /\ (call.mask # "None") <=> (out.kernel = "optimized_attention_masked")

(***************************************************************************)
(* C9, as claimed: after adain every batch entry's per-feature mean and    *)
(* standard deviation along the sequence axis are those of its style entry *)
(* (the deviations being sqrt(variance + eps), they are compared through   *)
(* the variances, within Tol), and the style entries are returned          *)
(* unchanged.  Stated for a sequence extent of at least 2.                 *)
(***************************************************************************)
AtCol(t, idx) == At(t, [idx EXCEPT ![SeqAxis(t)] = 0])
AtColStyle(t, idx) == AtStyle(t, [idx EXCEPT ![SeqAxis(t)] = 0])

StyleEntriesUnchanged ==
    \A idx \in Indices(feat.shape) :
        idx[1] = StyleOf(idx[1], feat.shape[1]) => At(out.t, idx) = At(feat, idx)

C9_AdainMatchesStyleMeanAndStd ==
    (call.op = "adain" /\ SeqLen(feat) >= 2) =>
        \A mu \in {MeanSeq(feat)}, var \in {VarSeq(feat)},
           omu \in {MeanSeq(out.t)}, ovar \in {VarSeq(out.t)} :
            /\ \A c \in Indices(mu.shape) :
                 /\ At(omu, c) = AtStyle(mu, c)
                 /\ IsRationalValued(At(ovar, c))
                 /\ Close(Value(At(ovar, c)), Value(AtStyle(var, c)))
            /\ StyleEntriesUnchanged

(***************************************************************************)
(* C9, amended: for a sequence extent n >= 2, adain returns, in exact      *)
(* arithmetic, (input - mean) / std * style_std + style_mean with          *)
(* std = sqrt(variance + eps); every entry's mean along the sequence axis  *)
(* is then its style entry's mean, its variance is                         *)
(* v * (V + eps) / (v + eps) for its own variance v and its style entry's  *)
(* variance V (the style's only where v = V, and 0 for a constant entry),  *)
(* and the style entries are returned unchanged.  For n = 1 the unbiased   *)
(* variance is NaN and so is every element returned.                       *)
(***************************************************************************)
C9_AdainStatistics ==
    (call.op = "adain") =>
        /\ out.t.shape = feat.shape
        /\ IF SeqLen(feat) = 1
           THEN \A k \in DOMAIN out.t.flat : out.t.flat[k].nan
           ELSE \A mu \in {MeanSeq(feat)}, var \in {VarSeq(feat)},
                   omu \in {MeanSeq(out.t)}, ovar \in {VarSeq(out.t)} :
                    /\ \A idx \in Indices(feat.shape) :
                         At(out.t, idx) =
                             NumAdd(NumMul(NumDiv(NumSub(At(feat, idx),
                                                         AtCol(mu, idx)),
                                                  SqrtPlusEps(AtCol(var, idx))),
                                           SqrtPlusEps(AtColStyle(var, idx))),
                                    AtColStyle(mu, idx))
                    /\ \A c \in Indices(mu.shape) :
                         /\ At(omu, c) = AtStyle(mu, c)
                         /\ IsRationalValued(At(ovar, c))
                         /\ Value(At(ovar, c)) =
                                RDiv(RMul(Value(At(var, c)),
                                          RAdd(Value(AtStyle(var, c)), Eps)),
                                     RAdd(Value(At(var, c)), Eps))
                    /\ StyleEntriesUnchanged

C9_Witness ==
    /\ call.op = "adain" /\ SeqLen(feat) >= 2 /\ feat.shape[1] = 4
    /\ \E c \in Indices(MeanSeq(feat).shape) :
         /\ At(VarSeq(feat), c) = Num(0)
         /\ AtStyle(VarSeq(feat), c) # Num(0)
    /\ \E c \in Indices(MeanSeq(feat).shape) :
         /\ At(VarSeq(feat), c) # Num(0)
         /\ AtStyle(VarSeq(feat), c) = Num(0)

(***************************************************************************)
(* C5: after k >= 1 register_norm_forward calls on a layer, its            *)
(* orig_forward is the forward it had before the first call and its        *)
(* forward is one wrapper around that; a call of the forward calls the     *)
(* original exactly once, on the input followed along the sequence axis by *)
(* its style entries (extent 2n), and returns a tensor of the input's      *)
(* shape.                                                                  *)
(***************************************************************************)
C5_WrapIsIdempotent ==
    /\ \A l \in Nodes :
         models[1].wraps[l] >= 1 =>
             /\ models[1].orig_forward[l] = [has |-> TRUE, fwd |-> 0]
             /\ models[1].forward[l] = 1
    /\ (call.op = "forward" /\ models[1].wraps[call.layer] >= 1) =>
         /\ Len(out.calls) = 1
         /\ SeqLen(out.calls[1]) = 2 * SeqLen(feat)
         /\ \E style \in {MkTensor(feat.shape, LAMBDA idx : AtStyle(feat, idx))} :
              FollowedBy(out.calls[1], feat, style)
         /\ out.ret.shape = feat.shape

C5_Witness ==
    /\ call.op = "forward"
    /\ models[1].wraps[call.layer] = 2
    /\ feat.shape = <<4, 2, 1>>
    /\ out.calls[1].shape = <<4, 4, 1>>
    /\ out.ret.shape = <<4, 2, 1>>

(***************************************************************************)
(* C6: get_norm_layers ends on every finite layer tree and records a       *)
(* group-norm layer iff share_group_norm is set and no proper ancestor of  *)
(* it (in the walk) is a recorded group-norm layer, and a layer-norm layer *)
(* iff share_layer_norm is set and no proper ancestor of it is a recorded  *)
(* group-norm layer; each layer at most once, in pre-order.                *)
(***************************************************************************)
RECURSIVE Anc(_)
Anc(l) == IF parent[l] = 0 THEN {} ELSE {parent[l]} \cup Anc(parent[l])

\* The strict ancestors of l that a walk started at root passes through.
AncFrom(root, l) == {a \in Anc(l) : a = root \/ root \in Anc(a)}

Subtree(root) == {l \in Nodes : l = root \/ root \in Anc(l)}

RECURSIVE PreOrder(_)
PreOrder(root) ==
    LET RECURSIVE Each(_)
        Each(cs) == IF cs = <<>> THEN <<>>
                    ELSE PreOrder(Head(cs)) \o Each(Tail(cs))
    IN  <<root>> \o Each(children(root))

Range(f) == {f[i] : i \in DOMAIN f}

C6_WalkRecords ==
    (call.op = "get_norm_layers") =>
        LET root == call.layer
            RG == Range(out.norm_layers.group)
            RL == Range(out.norm_layers.layer)
            InRG(l) == l \in RG
            InRL(l) == l \in RL
        IN  /\ \A l \in Nodes :
                 /\ l \in RG <=>
                        /\ l \in Subtree(root)
                        /\ kinds[l] = "GroupNorm" /\ call.share_group_norm
                        /\ AncFrom(root, l) \cap RG = {}
                 /\ l \in RL <=>
                        /\ l \in Subtree(root)
                        /\ kinds[l] = "LayerNorm" /\ call.share_layer_norm
                        /\ AncFrom(root, l) \cap RG = {}
            /\ out.norm_layers.group = SelectSeq(PreOrder(root), InRG)
            /\ out.norm_layers.layer = SelectSeq(PreOrder(root), InRL)

C6_Witness ==
    /\ call.op = "get_norm_layers" /\ call.layer = 1
    /\ call.share_group_norm /\ call.share_layer_norm
    /\ kinds = <<"LayerNorm", "GroupNorm", "LayerNorm", "LayerNorm">>
    /\ parent = <<0, 1, 2, 1>>
    /\ out.norm_layers = [group |-> <<2>>, layer |-> <<1, 4>>]

(***************************************************************************)
(* C8: patch on a model whose layers are all unwrapped wraps exactly the   *)
(* normalization layers share_norm selects: none for "disabled", the       *)
(* group-norm layers the walk finds for "group", the layer-norm layers it  *)
(* finds for "layer", both for "both"; no other layer's forward changes.   *)
(***************************************************************************)
Wrapped(st) == {l \in Nodes : st.forward[l] # 0}
Unwrapped(st) ==
    \A l \in Nodes : st.forward[l] = 0 /\ ~st.orig_forward[l].has

NoGroupAbove(l) == \A a \in Anc(l) : kinds[a] # "GroupNorm"

Selected(share_norm) ==
    CASE share_norm = "disabled" -> {}
      [] share_norm = "group" ->
            {l \in Nodes : kinds[l] = "GroupNorm" /\ NoGroupAbove(l)}
      [] share_norm = "layer" -> {l \in Nodes : kinds[l] = "LayerNorm"}
      [] share_norm = "both" ->
            {l \in Nodes : kinds[l] \in NormKinds /\ NoGroupAbove(l)}

C8_PatchWrapsSelected ==
    [][(Unwrapped(models[1]) /\ call'.op = "patch") =>
          /\ Wrapped(models'[1]) = Selected(call'.share_norm)
          /\ \A l \in Nodes \ Selected(call'.share_norm) :
               /\ models'[1].forward[l] = models[1].forward[l]
               /\ models'[1].orig_forward[l] = models[1].orig_forward[l]]_vars

C8_Witness ==
    /\ call.op = "patch" /\ call.share_norm = "both" /\ Len(patchers) = 2
    /\ kinds = <<"LayerNorm", "GroupNorm", "LayerNorm">>
    /\ parent = <<0, 1, 2>>
    /\ Wrapped(models[1]) = {1, 2}

(***************************************************************************)
(* C10: over any sequence of patch calls on the input model and the clones *)
(* patch returned, all of which hold the one model object, the set of      *)
(* wrapped layers only grows: a wrapped layer stays wrapped, its           *)
(* orig_forward the original forward, also over a patch with "disabled";   *)
(* the wrappers are on the model passed in, and the attention hook is      *)
(* added to the returned clone only.                                       *)
(***************************************************************************)
C10_WrappedOnlyGrows ==
    [][/\ Len(models') = 1
       /\ \A h \in DOMAIN patchers' : patchers'[h].model = 1
       /\ Wrapped(models'[1]) = Wrapped(models[1]) \cup Selected(call'.share_norm)
       /\ \A l \in Wrapped(models'[1]) :
            models'[1].orig_forward[l] = [has |-> TRUE, fwd |-> 0]
       /\ \A h \in DOMAIN patchers : patchers'[h] = patchers[h]
       /\ Len(patchers') = Len(patchers) + 1
       /\ patchers'[Len(patchers')].attn1
              = Append(patchers[call'.model].attn1, Processor(call'.scale))]_vars

C10_Witness ==
    /\ Len(patchers) = 3
    /\ call.op = "patch" /\ call.share_norm = "disabled" /\ call.model = 1
    /\ Wrapped(models[1]) # {}
    /\ patchers[1].attn1 = <<>>
    /\ Len(patchers[3].attn1) = 1

====
